---- MODULE Spec2Model ----
(***************************************************************************)
(* Model of the Uniswap V3 swap screener: the token-position resolver      *)
(* (detect_if_alt_token_is_token0) and the swap decoders                   *)
(* (process_swap_log in data_collection/utils.py and in the two            *)
(* transaction_screener.py files).                                         *)
(*                                                                         *)
(* Strings are sequences of one-character strings, so that str.lower(),    *)
(* slicing and concatenation are computed rather than assumed.  Widths     *)
(* are scaled down: an ABI word has WordBits bits instead of 256, an       *)
(* address AddrLen hex digits instead of 40, a float MantBits mantissa     *)
(* bits instead of 53.                                                     *)
(***************************************************************************)
EXTENDS Integers, Sequences, FiniteSets, TLC

VARIABLES
    \* --- resolver (data_collection/utils.py) ---
    pool_token0,        \* what the node answers to eth_call token0()
    pool_token1,        \* what the node answers to eth_call token1()
    alt_token_address,  \* argument of detect_if_alt_token_is_token0
    t0, t1,             \* locals of detect_if_alt_token_is_token0
    pc,                 \* position inside detect_if_alt_token_is_token0
    resolved,           \* its outcome
    \* --- decoder ---
    log,                \* the raw log handed to process_swap_log
    alt_token_is_token0,\* the flag handed to process_swap_log
    decoder,            \* which process_swap_log ran
    outcome,            \* its outcome
    \* --- price derivation ---
    sqrt_price_x96,     \* argument of compute_price_in_quote_token
    price_token0,       \* its result with alt_token_is_token0 = True
    price_token1,       \* its result with alt_token_is_token0 = False
    \* --- resolver, order of its two queries ---
    query_order,        \* "01": token0() is asked first, as written; "10": token1()
    \* --- a series of decoder calls ---
    calls,              \* the calls made so far: decoder, log, flag, outcome
    \* --- main (the two transaction_screener.py) ---
    screener_file,      \* whose main runs
    settings,           \* config/settings.py: POOL_ADDRESS and TOKEN_IS_TOKEN0
    main_pc,            \* position inside main
    latest_block,       \* what get_latest_block answers
    end_block,          \* local of main
    hour_index,         \* local of main, the value range() hands out next
    all_swaps,          \* local of main
    windows,            \* the block ranges asked of get_logs_in_range, in order
    fetched,            \* the logs get_logs_in_range returned, in order
    decoded_logs,       \* the logs handed to process_swap_log, in order
    main_raised,        \* the exception that ended main, "" when none
    csv                 \* swap_data.csv: what was written, or NoFile

vars == <<pool_token0, pool_token1, alt_token_address, t0, t1, pc, resolved,
          log, alt_token_is_token0, decoder, outcome,
          sqrt_price_x96, price_token0, price_token1,
          query_order, calls,
          screener_file, settings, main_pc, latest_block, end_block, hour_index,
          all_swaps, windows, fetched, decoded_logs, main_raised, csv>>

resolver_vars == <<pool_token0, pool_token1, alt_token_address, t0, t1, pc, resolved>>
decoder_vars  == <<log, alt_token_is_token0, decoder, outcome>>
price_vars    == <<sqrt_price_x96, price_token0, price_token1>>
main_vars     == <<screener_file, settings, main_pc, latest_block, end_block,
                   hour_index, all_swaps, windows, fetched, decoded_logs, main_raised, csv>>

(***************************************************************************)
(* Bounds                                                                  *)
(***************************************************************************)
\* hex digits of an address (40 in the program)
AddrLen == 2

\* characters an address may be written with: a letter in both cases, a digit
AddrChars == {"a", "A", "1"}

\* the 12 bytes that precede the address in the 32-byte eth_call result,
\* scaled to one character; a node may return them non-zero
PadChars == {"0", "f"}

(***************************************************************************)
(* Strings                                                                 *)
(***************************************************************************)
Prefix0x == <<"0", "x">>

\* str.lower() on one character
LowerChar(c) ==
    CASE c = "A" -> "a"
      [] c = "B" -> "b"
      [] c = "C" -> "c"
      [] c = "D" -> "d"
      [] c = "E" -> "e"
      [] c = "F" -> "f"
      [] c = "X" -> "x"
      [] OTHER   -> c

\* str.lower()
Lower(s) == [i \in 1..Len(s) |-> LowerChar(s[i])]

\* s[-n:]
LastN(s, n) == IF Len(s) <= n THEN s ELSE SubSeq(s, Len(s) - n + 1, Len(s))

\* all strings of length n over the characters cs
RECURSIVE StringsOf(_, _)
StringsOf(cs, n) ==
    IF n = 0 THEN {<<>>}
    ELSE {<<c>> \o s : c \in cs, s \in StringsOf(cs, n - 1)}

(***************************************************************************)
(* Resolver: get_token0, get_token1, detect_if_alt_token_is_token0         *)
(***************************************************************************)
\* resp.json().get("result"): a hex string, or None when the call failed
ResultHex == {Prefix0x \o p \o a : p \in StringsOf(PadChars, 1),
                                   a \in StringsOf(AddrChars, AddrLen)}
RpcResponses == {[has |-> TRUE, result |-> h] : h \in ResultHex}
                \cup {[has |-> FALSE, result |-> <<>>]}

\* the token address the caller configures, with either spelling of the prefix
AltTokens == {p \o a : p \in {<<"0", "x">>, <<"0", "X">>},
                       a \in StringsOf(AddrChars, AddrLen)}

NoAddr == <<>>

\* "0x" + result_hex[-40:].lower()
get_token0(result_hex) == Prefix0x \o Lower(LastN(result_hex, AddrLen))
get_token1_keeps_answer(result_hex) ==
    IF t0 # NoAddr THEN t0 ELSE Prefix0x \o Lower(LastN(result_hex, AddrLen))
get_token1(result_hex) == Prefix0x \o Lower(LastN(result_hex, AddrLen))

Pending == [kind |-> "pending", value |-> FALSE, error |-> "",
            token0 |-> NoAddr, token1 |-> NoAddr, token |-> NoAddr]

\* result_hex[-40:] on None raises TypeError, which nothing catches
TransportFailure == [kind |-> "error", value |-> FALSE, error |-> "TypeError",
                     token0 |-> NoAddr, token1 |-> NoAddr, token |-> NoAddr]

\* the comparison chain at the end of detect_if_alt_token_is_token0; the
\* Exception it raises names the token and both addresses found
CompareFirstOnly(alt, a0, a1) ==
    IF Lower(alt) = Lower(a0)
        THEN [kind |-> "flag", value |-> TRUE, error |-> "",
              token0 |-> a0, token1 |-> a1, token |-> alt]
        ELSE [kind |-> "flag", value |-> FALSE, error |-> "",
              token0 |-> a0, token1 |-> a1, token |-> alt]
Compare(alt, a0, a1) ==
    IF Lower(alt) = Lower(a0)
        THEN [kind |-> "flag", value |-> TRUE, error |-> "",
              token0 |-> a0, token1 |-> a1, token |-> alt]
    ELSE IF Lower(alt) = Lower(a1)
        THEN [kind |-> "flag", value |-> FALSE, error |-> "",
              token0 |-> a0, token1 |-> a1, token |-> alt]
    ELSE [kind |-> "error", value |-> FALSE, error |-> "Exception",
          token0 |-> a0, token1 |-> a1, token |-> alt]


(***************************************************************************)
(* Integers and floats                                                     *)
(***************************************************************************)
\* bits of an ABI word (256 in the program)
WordBits == 5

\* mantissa bits of a float (53 in the program)
MantBits == 4

\* uint160, uint128 and the X96 fixed point, in the proportion of the word
SqrtBits == WordBits - 2
LiqBits  == WordBits - 3
FracBits == SqrtBits - 2

RECURSIVE TwoPow(_)
TwoPow(n) == IF n = 0 THEN 1 ELSE 2 * TwoPow(n - 1)

\* a float is the rational num / den in lowest terms, den a power of two
Zero == [num |-> 0, den |-> 1]

RECURSIVE Reduce(_, _)
Reduce(n, d) ==
    IF d > 1 /\ n % 2 = 0 THEN Reduce(n \div 2, d \div 2) ELSE [num |-> n, den |-> d]

\* bring n / d into [2^(MantBits-1), 2^MantBits) by a power of two 2^e
RECURSIVE Scale(_, _, _)
Scale(n, d, e) ==
    IF n >= d * TwoPow(MantBits) THEN Scale(n, 2 * d, e + 1)
    ELSE IF n < d * TwoPow(MantBits - 1) THEN Scale(2 * n, d, e - 1)
    ELSE <<n, d, e>>

\* n / d to the nearest integer, ties to even
RoundHalfEven(n, d) ==
    LET q == n \div d
        r == n % d
    IN  IF 2 * r > d \/ (2 * r = d /\ q % 2 = 1) THEN q + 1 ELSE q

\* Python's n / d for n >= 0, d > 0: the float nearest to the quotient
FloatDivFloor(n, d) == [num |-> n \div d, den |-> 1]
FloatDiv(n, d) ==
    IF n = 0 THEN Zero
    ELSE LET sc == Scale(n, d, 0)
             m  == RoundHalfEven(sc[1], sc[2])
             e  == sc[3]
         IN  IF e >= 0 THEN Reduce(m * TwoPow(e), 1) ELSE Reduce(m, TwoPow(-e))

\* compute_price_in_quote_token: raised names the exception, "" when none
compute_price_never_inverts(sqrt, flag) ==
    [raised |-> "", value |-> FloatDiv(sqrt * sqrt, TwoPow(2 * FracBits))]
compute_price_in_quote_token(sqrt, flag) ==
    LET raw_price == FloatDiv(sqrt * sqrt, TwoPow(2 * FracBits))
    IN  IF flag
            THEN [raised |-> "", value |-> raw_price]
        ELSE IF raw_price.num = 0
            THEN [raised |-> "ZeroDivisionError", value |-> Zero]
        ELSE [raised |-> "", value |-> FloatDiv(raw_price.den, raw_price.num)]

(***************************************************************************)
(* abi.decode(["int256", "int256", "uint160", "uint128", "int256"], ...)   *)
(***************************************************************************)
FieldTypes == <<"int256", "int256", "uint160", "uint128", "int256">>

ValueBits(type) ==
    CASE type = "uint160" -> SqrtBits
      [] type = "uint128" -> LiqBits
      [] OTHER            -> WordBits

\* a word read as a two's-complement integer of the full word
SignedAsUnsigned(w) == w
Signed(w) == IF w >= TwoPow(WordBits - 1) THEN w - TwoPow(WordBits) ELSE w

DecodeField(type, w) == IF type = "int256" THEN Signed(w) ELSE w

\* the bytes above the value must be zero for an unsigned type
PaddingOk(type, w) == w < TwoPow(ValueBits(type))

\* the fields are read in turn, each from the next word
abi_decode_zero_fill(words) ==
    [raised |-> "",
     values |-> [i \in 1..5 |->
                    IF i > Len(words) THEN 0
                    ELSE DecodeField(FieldTypes[i], words[i] % TwoPow(ValueBits(FieldTypes[i])))]]
abi_decode(words) ==
    LET bad == {i \in 1..5 : i > Len(words) \/ ~PaddingOk(FieldTypes[i], words[i])}
    IN  IF bad = {}
            THEN [raised |-> "",
                  values |-> [i \in 1..5 |-> DecodeField(FieldTypes[i], words[i])]]
        ELSE LET i == CHOOSE k \in bad : \A j \in bad : k <= j
             IN  [raised |-> IF i > Len(words) THEN "InsufficientDataBytes"
                                               ELSE "NonEmptyPaddingBytes",
                  values |-> [k \in 1..5 |-> 0]]

(***************************************************************************)
(* process_swap_log                                                        *)
(***************************************************************************)
\* S.SWAP_TOPIC, scaled to two hex digits
SWAP_TOPIC == <<"0", "x", "c", "4">>

PendingOutcome ==
    [kind |-> "pending", error |-> "", tx_hash |-> "", amount0 |-> 0, amount1 |-> 0,
     price |-> Zero, trade_type |-> ""]
Absent ==
    [kind |-> "absent", error |-> "", tx_hash |-> "", amount0 |-> 0, amount1 |-> 0,
     price |-> Zero, trade_type |-> ""]
Raised(e) ==
    [kind |-> "error", error |-> e, tx_hash |-> "", amount0 |-> 0, amount1 |-> 0,
     price |-> Zero, trade_type |-> ""]

\* log.get("topics", []): the list, or a falsy value when missing or null
Topics(l) == IF l.topics_key = "list" THEN l.topics ELSE <<>>

\* the event-type filter of data_collection/utils.py
utils_not_swap_last_topic(l) ==
    LET topics == Topics(l)
    IN  Len(topics) = 0 \/ Lower(topics[Len(topics)]) # Lower(SWAP_TOPIC)
utils_not_swap(l) ==
    LET topics == Topics(l)
    IN  Len(topics) = 0 \/ Lower(topics[1]) # Lower(SWAP_TOPIC)

\* the event-type filter of the two transaction_screener.py
screener_not_swap(l) ==
    LET topics == Topics(l)
    IN  Len(topics) = 0 \/ Lower(topics[1]) # SWAP_TOPIC

\* buy / sell
TradeTypeNonNegative(flag, amount0, amount1) ==
    IF flag THEN (IF amount0 >= 0 THEN "buy" ELSE "sell")
            ELSE (IF amount1 >= 0 THEN "buy" ELSE "sell")
TradeType(flag, amount0, amount1) ==
    IF flag THEN (IF amount0 > 0 THEN "buy" ELSE "sell")
            ELSE (IF amount1 > 0 THEN "buy" ELSE "sell")

\* data_collection/utils.py
utils_process_swap_log(l, flag) ==
    IF utils_not_swap(l) THEN Absent
    ELSE IF ~l.has_data THEN Raised("KeyError")
    ELSE IF ~l.hex_ok THEN Raised("ValueError")
    ELSE LET decoded == abi_decode(l.words)
         IN  IF decoded.raised # "" THEN Raised(decoded.raised)
             ELSE LET amount0 == decoded.values[1]
                      amount1 == decoded.values[2]
                      sqrt    == decoded.values[3]
                      price_in_quote == compute_price_in_quote_token(sqrt, flag)
                  IN  IF price_in_quote.raised # "" THEN Raised(price_in_quote.raised)
                      ELSE [kind |-> "record", error |-> "",
                            tx_hash |-> l.transactionHash,
                            amount0 |-> amount0, amount1 |-> amount1,
                            price |-> price_in_quote.value,
                            trade_type |-> TradeType(flag, amount0, amount1)]

\* data_collection/transaction_screener.py
dc_screener_process_swap_log(l, flag) ==
    IF screener_not_swap(l) THEN Absent
    ELSE IF ~l.has_data THEN Raised("KeyError")
    ELSE IF ~l.hex_ok THEN Raised("ValueError")
    ELSE LET decoded == abi_decode(l.words)
         IN  IF decoded.raised # "" THEN Raised(decoded.raised)
             ELSE LET amount0 == decoded.values[1]
                      amount1 == decoded.values[2]
                      sqrt    == decoded.values[3]
                  IN  [kind |-> "record", error |-> "",
                       tx_hash |-> l.transactionHash,
                       amount0 |-> amount0, amount1 |-> amount1,
                       price |-> FloatDiv(sqrt * sqrt, TwoPow(2 * FracBits)),
                       trade_type |-> TradeType(flag, amount0, amount1)]

\* transaction_screener.py
screener_process_swap_log(l, flag) ==
    IF screener_not_swap(l) THEN Absent
    ELSE IF ~l.has_data THEN Raised("KeyError")
    ELSE IF ~l.hex_ok THEN Raised("ValueError")
    ELSE LET decoded == abi_decode(l.words)
         IN  IF decoded.raised # "" THEN Raised(decoded.raised)
             ELSE LET amount0 == decoded.values[1]
                      amount1 == decoded.values[2]
                      sqrt    == decoded.values[3]
                  IN  [kind |-> "record", error |-> "",
                       tx_hash |-> l.transactionHash,
                       amount0 |-> amount0, amount1 |-> amount1,
                       price |-> FloatDiv(sqrt * sqrt, TwoPow(2 * FracBits)),
                       trade_type |-> TradeType(flag, amount0, amount1)]

(***************************************************************************)
(* Inputs                                                                  *)
(***************************************************************************)
OtherTopic == <<"0", "x", "d", "4">>

\* the "topics" entry of a log: missing, null, or a list
TopicEntries ==
    {[topics_key |-> "missing", topics |-> <<>>],
     [topics_key |-> "null", topics |-> <<>>]}
    \cup {[topics_key |-> "list", topics |-> ts] :
            ts \in {<<>>,
                    <<SWAP_TOPIC>>,
                    <<(<<"0", "x", "C", "4">>)>>,
                    <<(<<"0", "X", "C", "4">>)>>,
                    <<OtherTopic>>,
                    <<SWAP_TOPIC, OtherTopic>>,
                    <<OtherTopic, SWAP_TOPIC>>}}

\* words of the payload, field by field
AmountWords == {0, 1, TwoPow(WordBits - 1), TwoPow(WordBits) - 1}
SqrtWords   == (0..(TwoPow(SqrtBits) - 1)) \cup {TwoPow(SqrtBits), TwoPow(WordBits) - 1}
LiqWords    == {0, TwoPow(LiqBits) - 1, TwoPow(LiqBits)}
TickWords   == {0, TwoPow(WordBits) - 1}

\* a payload of five fields followed by one more word, and its prefixes
FullPayloads ==
    {<<a0, a1, sq, lq, tk, 1>> :
        a0 \in AmountWords, a1 \in AmountWords, sq \in SqrtWords,
        lq \in LiqWords, tk \in TickWords}
PayloadLengths == {0, 4, 5, 6}
Payloads == {SubSeq(p, 1, n) : p \in FullPayloads, n \in PayloadLengths}

\* the "data" entry: missing, not hexadecimal, or whole words
DataEntries ==
    {[has_data |-> FALSE, hex_ok |-> TRUE, words |-> <<>>],
     [has_data |-> TRUE, hex_ok |-> FALSE, words |-> <<>>]}
    \cup {[has_data |-> TRUE, hex_ok |-> TRUE, words |-> ws] : ws \in Payloads}

\* log.get("transactionHash"): the hash, or None
TxHashes == {"0x7a", "None"}

Logs ==
    {[topics_key |-> t.topics_key, topics |-> t.topics,
      has_data |-> d.has_data, hex_ok |-> d.hex_ok, words |-> d.words,
      transactionHash |-> h] :
        t \in TopicEntries, d \in DataEntries, h \in TxHashes}

NoLog == [topics_key |-> "missing", topics |-> <<>>, has_data |-> FALSE,
          hex_ok |-> TRUE, words |-> <<>>, transactionHash |-> "None"]
NoPrice == [raised |-> "pending", value |-> Zero]

ResolverIdle ==
    /\ pool_token0 = [has |-> FALSE, result |-> <<>>]
    /\ pool_token1 = [has |-> FALSE, result |-> <<>>]
    /\ alt_token_address = NoAddr
    /\ t0 = NoAddr
    /\ t1 = NoAddr
    /\ pc = "idle"
    /\ resolved = Pending
    /\ query_order = "01"

DecoderIdle ==
    /\ log = NoLog
    /\ alt_token_is_token0 = FALSE
    /\ decoder = "none"
    /\ outcome = PendingOutcome

PriceIdle ==
    /\ sqrt_price_x96 = 0
    /\ price_token0 = NoPrice
    /\ price_token1 = NoPrice

NoFile == [written |-> FALSE, rows |-> <<>>]
NoSettings == [POOL_ADDRESS |-> FALSE, TOKEN_IS_TOKEN0 |-> "missing"]

CallsIdle == calls = <<>>

MainIdle ==
    /\ screener_file = "none"
    /\ settings = NoSettings
    /\ main_pc = "idle"
    /\ latest_block = 0
    /\ end_block = 0
    /\ hour_index = 0
    /\ all_swaps = <<>>
    /\ windows = <<>>
    /\ fetched = <<>>
    /\ decoded_logs = <<>>
    /\ main_raised = ""
    /\ csv = NoFile

(***************************************************************************)
(* The resolver, step by step                                              *)
(***************************************************************************)
InitResolve ==
    /\ pool_token0 \in RpcResponses
    /\ pool_token1 \in RpcResponses
    /\ alt_token_address \in AltTokens
    /\ t0 = NoAddr
    /\ t1 = NoAddr
    /\ pc = "get_token0"
    /\ resolved = Pending
    /\ query_order = "01"
    /\ DecoderIdle
    /\ PriceIdle
    /\ CallsIdle
    /\ MainIdle

\* t0 = get_token0(pool_address)
GetToken0 ==
    /\ pc = "get_token0"
    /\ IF pool_token0.has
          THEN /\ t0' = get_token0(pool_token0.result)
               /\ pc' = "get_token1"
               /\ UNCHANGED resolved
          ELSE /\ resolved' = TransportFailure
               /\ pc' = "done"
               /\ UNCHANGED t0
    /\ UNCHANGED <<pool_token0, pool_token1, alt_token_address, t1>>
    /\ UNCHANGED <<decoder_vars, price_vars, query_order, calls, main_vars>>

\* t1 = get_token1(pool_address)
GetToken1 ==
    /\ pc = "get_token1"
    /\ IF pool_token1.has
          THEN /\ t1' = get_token1(pool_token1.result)
               /\ pc' = "compare"
               /\ UNCHANGED resolved
          ELSE /\ resolved' = TransportFailure
               /\ pc' = "done"
               /\ UNCHANGED t1
    /\ UNCHANGED <<pool_token0, pool_token1, alt_token_address, t0>>
    /\ UNCHANGED <<decoder_vars, price_vars, query_order, calls, main_vars>>

\* the if / elif / else of detect_if_alt_token_is_token0
Detect ==
    /\ pc = "compare"
    /\ resolved' = Compare(alt_token_address, t0, t1)
    /\ pc' = "done"
    /\ UNCHANGED <<pool_token0, pool_token1, alt_token_address, t0, t1>>
    /\ UNCHANGED <<decoder_vars, price_vars, query_order, calls, main_vars>>

NextResolve == GetToken0 \/ GetToken1 \/ Detect

SpecResolve == InitResolve /\ [][NextResolve]_vars

(***************************************************************************)
(* The resolver with its two queries in either order                       *)
(***************************************************************************)
InitResolveAnyOrder ==
    /\ pool_token0 \in RpcResponses
    /\ pool_token1 \in RpcResponses
    /\ alt_token_address \in AltTokens
    /\ t0 = NoAddr
    /\ t1 = NoAddr
    /\ query_order \in {"01", "10"}
    /\ pc = IF query_order = "01" THEN "get_token0" ELSE "get_token1_first"
    /\ resolved = Pending
    /\ DecoderIdle
    /\ PriceIdle
    /\ CallsIdle
    /\ MainIdle

\* t1 = get_token1(pool_address), as the first statement
GetToken1First ==
    /\ pc = "get_token1_first"
    /\ IF pool_token1.has
          THEN /\ t1' = get_token1(pool_token1.result)
               /\ pc' = "get_token0_second"
               /\ UNCHANGED resolved
          ELSE /\ resolved' = TransportFailure
               /\ pc' = "done"
               /\ UNCHANGED t1
    /\ UNCHANGED <<pool_token0, pool_token1, alt_token_address, t0>>
    /\ UNCHANGED <<decoder_vars, price_vars, query_order, calls, main_vars>>

\* t0 = get_token0(pool_address), as the second statement
GetToken0Second ==
    /\ pc = "get_token0_second"
    /\ IF pool_token0.has
          THEN /\ t0' = get_token0(pool_token0.result)
               /\ pc' = "compare"
               /\ UNCHANGED resolved
          ELSE /\ resolved' = TransportFailure
               /\ pc' = "done"
               /\ UNCHANGED t0
    /\ UNCHANGED <<pool_token0, pool_token1, alt_token_address, t1>>
    /\ UNCHANGED <<decoder_vars, price_vars, query_order, calls, main_vars>>

NextResolveAnyOrder ==
    GetToken0 \/ GetToken1 \/ GetToken1First \/ GetToken0Second \/ Detect

SpecResolveAnyOrder == InitResolveAnyOrder /\ [][NextResolveAnyOrder]_vars

(***************************************************************************)
(* One call of a decoder on one log                                        *)
(***************************************************************************)
InitDecode ==
    /\ log \in Logs
    /\ alt_token_is_token0 = FALSE
    /\ decoder = "none"
    /\ outcome = PendingOutcome
    /\ ResolverIdle
    /\ PriceIdle
    /\ CallsIdle
    /\ MainIdle

DecodeUtilsPopsHash ==
    /\ decoder = "none"
    /\ \E flag \in BOOLEAN :
          /\ alt_token_is_token0' = flag
          /\ outcome' = utils_process_swap_log(log, flag)
    /\ decoder' = "utils"
    /\ log' = [log EXCEPT !.transactionHash = "None"]
    /\ UNCHANGED <<resolver_vars, price_vars, query_order, calls, main_vars>>

DecodeUtils ==
    /\ decoder = "none"
    /\ \E flag \in BOOLEAN :
          /\ alt_token_is_token0' = flag
          /\ outcome' = utils_process_swap_log(log, flag)
    /\ decoder' = "utils"
    /\ UNCHANGED <<log, resolver_vars, price_vars, query_order, calls, main_vars>>

DecodeDcScreener ==
    /\ decoder = "none"
    /\ \E flag \in BOOLEAN :
          /\ alt_token_is_token0' = flag
          /\ outcome' = dc_screener_process_swap_log(log, flag)
    /\ decoder' = "dc_screener"
    /\ UNCHANGED <<log, resolver_vars, price_vars, query_order, calls, main_vars>>

DecodeScreener ==
    /\ decoder = "none"
    /\ \E flag \in BOOLEAN :
          /\ alt_token_is_token0' = flag
          /\ outcome' = screener_process_swap_log(log, flag)
    /\ decoder' = "screener"
    /\ UNCHANGED <<log, resolver_vars, price_vars, query_order, calls, main_vars>>

NextDecode == DecodeUtils \/ DecodeDcScreener \/ DecodeScreener

SpecDecode == InitDecode /\ [][NextDecode]_vars

(***************************************************************************)
(* compute_price_in_quote_token on one sqrtPriceX96, for either slot       *)
(***************************************************************************)
SqrtInputs == 0..(TwoPow(WordBits) - 1)

InitPrice ==
    /\ sqrt_price_x96 \in SqrtInputs
    /\ price_token0 = NoPrice
    /\ price_token1 = NoPrice
    /\ ResolverIdle
    /\ DecoderIdle
    /\ CallsIdle
    /\ MainIdle

PriceAsToken0 ==
    /\ price_token0 = NoPrice
    /\ price_token0' = compute_price_in_quote_token(sqrt_price_x96, TRUE)
    /\ UNCHANGED <<sqrt_price_x96, price_token1, resolver_vars, decoder_vars, query_order, calls, main_vars>>

PriceAsToken1 ==
    /\ price_token1 = NoPrice
    /\ price_token1' = compute_price_in_quote_token(sqrt_price_x96, FALSE)
    /\ UNCHANGED <<sqrt_price_x96, price_token0, resolver_vars, decoder_vars, query_order, calls, main_vars>>

NextPrice == PriceAsToken0 \/ PriceAsToken1

SpecPrice == InitPrice /\ [][NextPrice]_vars

(***************************************************************************)
(* A series of decoder calls, on any logs, by any of the decoders          *)
(***************************************************************************)
\* calls made in one series
MaxCalls == 3

SwapLog(ws, h) ==
    [topics_key |-> "list", topics |-> <<SWAP_TOPIC>>, has_data |-> TRUE,
     hex_ok |-> TRUE, words |-> ws, transactionHash |-> h]

\* a buy at raw price 1/4, a sell at raw price 9/4 (in the scale FracBits = 1),
\* a Swap log with sqrtPriceX96 = 0, a Swap log cut short, a log of another event
SeriesLogs ==
    {SwapLog(<<1, TwoPow(WordBits) - 1, 1, 0, 0>>, "0x7a"),
     SwapLog(<<TwoPow(WordBits) - 1, 1, 3, 1, 1>>, "0x7b"),
     SwapLog(<<1, 1, 0, 0, 0>>, "0x7c"),
     SwapLog(<<1, 1, 1, 0>>, "0x7d"),
     [topics_key |-> "list", topics |-> <<OtherTopic>>, has_data |-> TRUE,
      hex_ok |-> TRUE, words |-> <<1, 1, 1, 0, 0>>, transactionHash |-> "0x7e"]}

InitCalls ==
    /\ DecoderIdle
    /\ CallsIdle
    /\ ResolverIdle
    /\ PriceIdle
    /\ MainIdle

Call(name, l, flag, result) ==
    /\ Len(calls) < MaxCalls
    /\ log' = l
    /\ alt_token_is_token0' = flag
    /\ decoder' = name
    /\ outcome' = result
    /\ calls' = Append(calls, [decoder |-> name, log |-> l, flag |-> flag,
                               outcome |-> result])
    /\ UNCHANGED <<resolver_vars, price_vars, query_order, main_vars>>

\* the flag kept from the call before is the one used
CallUtilsStaleFlag ==
    \E l \in SeriesLogs, flag \in BOOLEAN :
        Call("utils", l, flag, utils_process_swap_log(l, alt_token_is_token0))

CallUtils ==
    \E l \in SeriesLogs, flag \in BOOLEAN :
        Call("utils", l, flag, utils_process_swap_log(l, flag))

CallDcScreener ==
    \E l \in SeriesLogs, flag \in BOOLEAN :
        Call("dc_screener", l, flag, dc_screener_process_swap_log(l, flag))

CallScreener ==
    \E l \in SeriesLogs, flag \in BOOLEAN :
        Call("screener", l, flag, screener_process_swap_log(l, flag))

NextCalls == CallUtils \/ CallDcScreener \/ CallScreener

SpecCalls == InitCalls /\ [][NextCalls]_vars

(***************************************************************************)
(* main of data_collection/transaction_screener.py and of                  *)
(* transaction_screener.py                                                 *)
(***************************************************************************)
\* config/settings.py
BLOCKS_PER_HOUR == 1800
NUM_HOURS == 5

\* get_latest_block answers up to MaxChunks whole windows above block 0
MaxChunks == 5

\* logs get_logs_in_range returns in one run, all windows together
MaxLogs == 2

\* S.POOL_ADDRESS and S.TOKEN_IS_TOKEN0: settings.py as it stands defines
\* neither; a settings.py may define the pool alone, or both
Settings ==
    {NoSettings,
     [POOL_ADDRESS |-> TRUE, TOKEN_IS_TOKEN0 |-> "missing"],
     [POOL_ADDRESS |-> TRUE, TOKEN_IS_TOKEN0 |-> "true"],
     [POOL_ADDRESS |-> TRUE, TOKEN_IS_TOKEN0 |-> "false"]}

\* int(latest_block_hex, 16): a block on a window edge or one below it
LatestBlocks ==
    {k * (BLOCKS_PER_HOUR + 1) + d : k \in 0..MaxChunks, d \in {0, BLOCKS_PER_HOUR}}

\* two swaps, a Swap log cut short, a log of another event
MainLogs ==
    {SwapLog(<<1, TwoPow(WordBits) - 1, 1, 0, 0>>, "0x7a"),
     SwapLog(<<TwoPow(WordBits) - 1, 1, 3, 1, 1>>, "0x7b"),
     SwapLog(<<1, 1, 1, 0>>, "0x7d"),
     [topics_key |-> "list", topics |-> <<OtherTopic>>, has_data |-> TRUE,
      hex_ok |-> TRUE, words |-> <<1, 1, 1, 0, 0>>, transactionHash |-> "0x7e"]}

\* what get_logs_in_range does: raise, or return data["result"]
FetchAnswers(room) ==
    {[ok |-> FALSE, logs |-> <<>>]}
    \cup {[ok |-> TRUE, logs |-> b] :
            b \in UNION {StringsOf(MainLogs, n) : n \in 0..room}}

\* max(end_block - S.BLOCKS_PER_HOUR, 0)
StartBlockUnclamped(end) == end - BLOCKS_PER_HOUR
StartBlock(end) ==
    IF end - BLOCKS_PER_HOUR > 0 THEN end - BLOCKS_PER_HOUR ELSE 0

\* the process_swap_log of the file whose main runs
MainDecoder(file, l, flag) ==
    IF file = "dc_screener" THEN dc_screener_process_swap_log(l, flag)
                            ELSE screener_process_swap_log(l, flag)

\* parsed, after parsed["hour_index"] = hour_index + 1
Row(parsed, hour) ==
    [tx_hash |-> parsed.tx_hash, amount0 |-> parsed.amount0,
     amount1 |-> parsed.amount1, price |-> parsed.price,
     trade_type |-> parsed.trade_type, hour_index |-> hour + 1]

\* for log in logs: ...; handed counts the logs given to process_swap_log
RECURSIVE ParseLogs(_, _, _, _)
ParseLogs(file, logs, flag, hour) ==
    IF logs = <<>> THEN [raised |-> "", hour_swaps |-> <<>>, handed |-> 0]
    ELSE LET parsed == MainDecoder(file, Head(logs), flag)
         IN  IF parsed.kind = "error"
                 THEN [raised |-> parsed.error, hour_swaps |-> <<>>, handed |-> 1]
             ELSE LET rest == ParseLogs(file, Tail(logs), flag, hour)
                  IN  [raised |-> rest.raised,
                       hour_swaps |-> IF parsed.kind = "record"
                                         THEN <<Row(parsed, hour)>> \o rest.hour_swaps
                                         ELSE rest.hour_swaps,
                       handed |-> 1 + rest.handed]

\* the body of "for log in logs", S.TOKEN_IS_TOKEN0 being read for each log
HourSwaps(logs, hour) ==
    IF logs # <<>> /\ settings.TOKEN_IS_TOKEN0 = "missing"
        THEN [raised |-> "AttributeError", hour_swaps |-> <<>>, handed |-> 0]
        ELSE ParseLogs(screener_file, logs, settings.TOKEN_IS_TOKEN0 = "true", hour)

\* all_swaps.extend(hour_swaps)
ExtendOverwrites(all, hour_swaps) == hour_swaps
Extend(all, hour_swaps) == all \o hour_swaps

InitMain ==
    /\ screener_file \in {"dc_screener", "screener"}
    /\ settings \in Settings
    /\ main_pc = "start"
    /\ latest_block = 0
    /\ end_block = 0
    /\ hour_index = 0
    /\ all_swaps = <<>>
    /\ windows = <<>>
    /\ fetched = <<>>
    /\ decoded_logs = <<>>
    /\ main_raised = ""
    /\ csv = NoFile
    /\ ResolverIdle
    /\ DecoderIdle
    /\ PriceIdle
    /\ CallsIdle

other_vars == <<resolver_vars, decoder_vars, price_vars, query_order, calls>>

\* latest_block = get_latest_block(); end_block = latest_block; all_swaps = []
MainStart ==
    /\ main_pc = "start"
    /\ \/ /\ main_raised' = "TypeError"
          /\ main_pc' = "aborted"
          /\ UNCHANGED <<latest_block, end_block>>
       \/ \E b \in LatestBlocks :
             /\ latest_block' = b
             /\ end_block' = b
             /\ main_pc' = "loop"
             /\ UNCHANGED main_raised
    /\ UNCHANGED <<screener_file, settings, hour_index, all_swaps, windows, fetched,
                   decoded_logs, csv>>
    /\ UNCHANGED other_vars

\* one turn of "for hour_index in range(S.NUM_HOURS)"
MainWindow ==
    /\ main_pc = "loop"
    /\ LET start_block == StartBlock(end_block)
       IN  IF ~settings.POOL_ADDRESS
               THEN /\ main_raised' = "AttributeError"
                    /\ main_pc' = "aborted"
                    /\ UNCHANGED <<windows, fetched, decoded_logs, all_swaps,
                                   end_block, hour_index>>
           ELSE \E answer \in FetchAnswers(MaxLogs - Len(fetched)) :
                   /\ windows' = Append(windows, <<start_block, end_block>>)
                   /\ IF ~answer.ok
                         THEN /\ main_raised' = "Exception"
                              /\ main_pc' = "aborted"
                              /\ UNCHANGED <<fetched, decoded_logs, all_swaps,
                                             end_block, hour_index>>
                      ELSE LET res == HourSwaps(answer.logs, hour_index)
                               more == start_block - 1 >= 0 /\ hour_index + 1 < NUM_HOURS
                           IN  /\ fetched' = fetched \o answer.logs
                               /\ decoded_logs' =
                                      decoded_logs \o SubSeq(answer.logs, 1, res.handed)
                               /\ IF res.raised # ""
                                     THEN /\ main_raised' = res.raised
                                          /\ main_pc' = "aborted"
                                          /\ UNCHANGED <<all_swaps, end_block, hour_index>>
                                     ELSE /\ all_swaps' = Extend(all_swaps, res.hour_swaps)
                                          /\ end_block' = start_block - 1
                                          /\ hour_index' = IF more THEN hour_index + 1
                                                                   ELSE hour_index
                                          /\ main_pc' = IF more THEN "loop" ELSE "after_loop"
                                          /\ UNCHANGED main_raised
    /\ UNCHANGED <<screener_file, settings, latest_block, csv>>
    /\ UNCHANGED other_vars

\* df = pd.DataFrame(all_swaps); return when df.empty; df.to_csv("swap_data.csv")
MainFinishWritesEmpty ==
    /\ main_pc = "after_loop"
    /\ csv' = [written |-> TRUE, rows |-> all_swaps]
    /\ main_pc' = "returned"
    /\ UNCHANGED <<screener_file, settings, latest_block, end_block, hour_index,
                   all_swaps, windows, fetched, decoded_logs, main_raised>>
    /\ UNCHANGED other_vars

MainFinish ==
    /\ main_pc = "after_loop"
    /\ csv' = IF all_swaps = <<>> THEN csv ELSE [written |-> TRUE, rows |-> all_swaps]
    /\ main_pc' = "returned"
    /\ UNCHANGED <<screener_file, settings, latest_block, end_block, hour_index,
                   all_swaps, windows, fetched, decoded_logs, main_raised>>
    /\ UNCHANGED other_vars

NextMain == MainStart \/ MainWindow \/ MainFinish

SpecMain == InitMain /\ [][NextMain]_vars

(***************************************************************************)
(* Properties.  They are stated with their own notions of letter case,     *)
(* two's complement and closeness, not with the operators of the model.    *)
(***************************************************************************)
UpperChar(c) ==
    CASE c = "a" -> "A"
      [] c = "b" -> "B"
      [] c = "c" -> "C"
      [] c = "d" -> "D"
      [] c = "e" -> "E"
      [] c = "f" -> "F"
      [] c = "x" -> "X"
      [] OTHER   -> c

EqIgnoreCase(a, b) ==
    /\ Len(a) = Len(b)
    /\ \A i \in 1..Len(a) : UpperChar(a[i]) = UpperChar(b[i])

\* the address a slot query answered: the trailing digits of the result
SlotAddress(resp) ==
    Prefix0x \o SubSeq(resp.result, Len(resp.result) - AddrLen + 1, Len(resp.result))

Resolved == pc = "done" /\ pool_token0.has /\ pool_token1.has
MatchesSlot0 == EqIgnoreCase(alt_token_address, SlotAddress(pool_token0))
MatchesSlot1 == EqIgnoreCase(alt_token_address, SlotAddress(pool_token1))

\* C1: once resolve has finished, a token equal (ignoring case) to the
\* first-slot address gets the flag true and a token equal to the second-slot
\* address gets the flag false.
C1_FlagFollowsSlot ==
    Resolved =>
        /\ MatchesSlot0 => (resolved.kind = "flag" /\ resolved.value = TRUE)
        /\ MatchesSlot1 => (resolved.kind = "flag" /\ resolved.value = FALSE)

\* C2: a token equal to neither slot address makes resolve raise, with both
\* addresses found and the token in the error; no flag is returned.
C2_MismatchRaises ==
    (Resolved /\ ~MatchesSlot0 /\ ~MatchesSlot1) =>
        /\ resolved.kind = "error"
        /\ resolved.error = "Exception"
        /\ EqIgnoreCase(resolved.token0, SlotAddress(pool_token0))
        /\ EqIgnoreCase(resolved.token1, SlotAddress(pool_token1))
        /\ resolved.token = alt_token_address

C2_Witness ==
    /\ Resolved /\ ~MatchesSlot0 /\ ~MatchesSlot1
    /\ resolved.kind = "error"
    /\ SlotAddress(pool_token0) # SlotAddress(pool_token1)

\* C8: resolve returns a flag only when exactly one of the two slot addresses
\* equals the token.
C8_FlagOnlyWhenExactlyOne ==
    (Resolved /\ resolved.kind = "flag") =>
        \/ MatchesSlot0 /\ ~MatchesSlot1
        \/ MatchesSlot1 /\ ~MatchesSlot0

\* --- decoder ---
Decoded == decoder # "none"

\* the log is a Swap event: it has a first topic, the Swap signature
IsSwapLog(l) ==
    /\ l.topics_key = "list"
    /\ l.topics # <<>>
    /\ EqIgnoreCase(l.topics[1], SWAP_TOPIC)

\* the payload holds the five fields, each within its type
WellFormed(l) ==
    /\ l.has_data
    /\ l.hex_ok
    /\ Len(l.words) >= 5
    /\ l.words[3] < TwoPow(SqrtBits)
    /\ l.words[4] < TwoPow(LiqBits)

TwosComplement(w) == IF w < TwoPow(WordBits - 1) THEN w ELSE -(TwoPow(WordBits) - w)

\* the float p is n / d up to a relative error of 2^-k
Near(p, n, d, k) ==
    LET diff == p.num * d - n * p.den
        abs  == IF diff < 0 THEN -diff ELSE diff
    IN  abs * TwoPow(k) <= n * p.den

\* raw = sqrtPriceX96^2 / 2^192, one rounding away
IsRaw(p, sqrt) == Near(p, sqrt * sqrt, TwoPow(2 * FracBits), MantBits)

\* 1 / raw, two roundings away
IsInverseRaw(p, sqrt) ==
    sqrt # 0 /\ Near(p, TwoPow(2 * FracBits), sqrt * sqrt, MantBits - 2)

DecodeErrors == {"ValueError", "InsufficientDataBytes", "NonEmptyPaddingBytes"}

C4_DirectionBySlotAmount ==
    outcome.kind = "record" =>
        LET relevant == TwosComplement(log.words[IF alt_token_is_token0 THEN 1 ELSE 2])
        IN  /\ outcome.trade_type \in {"buy", "sell"}
            /\ outcome.trade_type = "buy" <=> relevant > 0

C4_Witness ==
    /\ outcome.kind = "record"
    /\ alt_token_is_token0
    /\ log.words[1] = 0
    /\ TwosComplement(log.words[2]) > 0
    /\ outcome.trade_type = "sell"

\* C5 as stated: in every decoder's record the price is raw with the token in
\* the first slot and 1 / raw with the token in the second slot.
C5_PriceEveryDecoder ==
    outcome.kind = "record" =>
        IF alt_token_is_token0 THEN IsRaw(outcome.price, log.words[3])
                               ELSE IsInverseRaw(outcome.price, log.words[3])

\* C5 as amended: that holds of process_swap_log in data_collection/utils.py;
\* the process_swap_log of the two transaction_screener.py gives raw whichever
\* slot the token is in.
C5_PriceByDecoder ==
    outcome.kind = "record" =>
        IF decoder = "utils" /\ ~alt_token_is_token0
            THEN IsInverseRaw(outcome.price, log.words[3])
            ELSE IsRaw(outcome.price, log.words[3])

C5_Witness ==
    /\ outcome.kind = "record"
    /\ decoder = "utils"
    /\ ~alt_token_is_token0
    /\ log.words[3] = 1
    /\ outcome.price = [num |-> TwoPow(2 * FracBits), den |-> 1]

\* C6: a Swap log whose sqrtPriceX96 is 0 makes decode raise; no record is
\* returned for it.
C6_ZeroSqrtRaises ==
    (Decoded /\ IsSwapLog(log) /\ WellFormed(log) /\ log.words[3] = 0) =>
        (outcome.kind = "error" /\ outcome.error = "ZeroDivisionError")

\* C7: a Swap log whose payload is not hexadecimal, is shorter than the five
\* fields, or holds a field beyond its type makes decode raise a decoding
\* error; it is answered neither "absent" nor with a record.
C7_MalformedPayloadRaises ==
    (Decoded /\ IsSwapLog(log) /\ log.has_data /\ ~WellFormed(log)) =>
        (outcome.kind = "error" /\ outcome.error \in DecodeErrors)

C7_Witness ==
    /\ Decoded
    /\ IsSwapLog(log)
    /\ log.hex_ok
    /\ Len(log.words) = 4
    /\ outcome.kind = "error"
    /\ outcome.error = "InsufficientDataBytes"

\* the decoder that ran, applied to another log
Rerun(l) ==
    CASE decoder = "utils"       -> utils_process_swap_log(l, alt_token_is_token0)
      [] decoder = "dc_screener" -> dc_screener_process_swap_log(l, alt_token_is_token0)
      [] OTHER                   -> screener_process_swap_log(l, alt_token_is_token0)

\* C10: a record holds the first word as amount0 and the second as amount1,
\* both read as two's complement of the full word, its price comes from the
\* third word read as unsigned, and the record is the one the same log gives
\* with liquidity 0 and tick 0, whatever its liquidity and tick are.
C10_FieldsInOrder ==
    outcome.kind = "record" =>
        /\ outcome.amount0 = TwosComplement(log.words[1])
        /\ outcome.amount1 = TwosComplement(log.words[2])
        /\ IF decoder = "utils" /\ ~alt_token_is_token0
              THEN IsInverseRaw(outcome.price, log.words[3])
              ELSE IsRaw(outcome.price, log.words[3])
        /\ Rerun([log EXCEPT !.words = [@ EXCEPT ![4] = 0, ![5] = 0]]) = outcome

C10_Witness ==
    /\ outcome.kind = "record"
    /\ log.words[1] = TwoPow(WordBits) - 1
    /\ outcome.amount0 = -1
    /\ log.words[2] = TwoPow(WordBits - 1)
    /\ log.words[4] # 0
    /\ log.words[5] # 0

\* --- price derivation ---
\* C9: for a nonzero sqrtPriceX96 the price with the token in the first slot
\* times the price with it in the second slot is 1 up to one rounding, and at
\* sqrtPriceX96 = 2^96 both prices are exactly 1.
C9_PricesAreInverse ==
    (sqrt_price_x96 # 0 /\ price_token0 # NoPrice /\ price_token1 # NoPrice) =>
        /\ price_token0.raised = ""
        /\ price_token1.raised = ""
        /\ Near([num |-> price_token0.value.num * price_token1.value.num,
                 den |-> price_token0.value.den * price_token1.value.den],
                1, 1, MantBits)
        /\ sqrt_price_x96 = TwoPow(FracBits) =>
              /\ price_token0.value = [num |-> 1, den |-> 1]
              /\ price_token1.value = [num |-> 1, den |-> 1]

C9_Witness ==
    /\ sqrt_price_x96 = 3
    /\ price_token0.raised = ""
    /\ price_token1.raised = ""
    /\ price_token0.value # price_token1.value

\* C11: a record carries the log's transaction hash, both amounts as the
\* payload holds them (whatever the flag), a price and a direction; and no
\* decoder changes the log it is handed.
C11_RecordCarriesLog ==
    /\ [](outcome.kind = "record" =>
            /\ outcome.tx_hash = log.transactionHash
            /\ outcome.amount0 = TwosComplement(log.words[1])
            /\ outcome.amount1 = TwosComplement(log.words[2])
            /\ outcome.price.num >= 0 /\ outcome.price.den > 0
            /\ outcome.trade_type \in {"buy", "sell"})
    /\ [][log' = log]_vars

C11_Witness ==
    /\ outcome.kind = "record"
    /\ ~alt_token_is_token0
    /\ log.transactionHash = "0x7a"
    /\ outcome.tx_hash = "0x7a"
    /\ outcome.amount0 = 1
    /\ outcome.amount1 = -1

C13_FlagIndependentOfOrder ==
    (Resolved /\ (MatchesSlot0 # MatchesSlot1)) =>
        /\ resolved.kind = "flag"
        /\ resolved.value = MatchesSlot0

C13_Witness ==
    /\ Resolved
    /\ query_order = "10"
    /\ MatchesSlot1 /\ ~MatchesSlot0
    /\ resolved.kind = "flag"
    /\ resolved.value = FALSE

\* main is between two windows, or past the last one, and nothing was raised
MainRunsClean == main_pc \in {"loop", "after_loop", "returned"}

\* C14: in main the decoder is handed the fetched logs one by one in fetch
\* order, each once; as long as nothing was raised the collected records are
\* the decodes of the fetched logs whose first topic is the Swap signature, in
\* fetch order, so there are never more records than logs.
C14_OneDecodePerLog ==
    /\ Len(decoded_logs) <= Len(fetched)
    /\ decoded_logs = SubSeq(fetched, 1, Len(decoded_logs))
    /\ MainRunsClean =>
          LET swaps == SelectSeq(fetched, IsSwapLog)
          IN  /\ main_raised = ""
              /\ decoded_logs = fetched
              /\ Len(all_swaps) = Len(swaps)
              /\ Len(all_swaps) <= Len(fetched)
              /\ \A i \in 1..Len(swaps) :
                    LET d == MainDecoder(screener_file, swaps[i],
                                         settings.TOKEN_IS_TOKEN0 = "true")
                    IN  /\ d.kind = "record"
                        /\ all_swaps[i].tx_hash = d.tx_hash
                        /\ all_swaps[i].amount0 = d.amount0
                        /\ all_swaps[i].amount1 = d.amount1
                        /\ all_swaps[i].price = d.price
                        /\ all_swaps[i].trade_type = d.trade_type

C14_Witness ==
    /\ main_pc = "returned"
    /\ Len(fetched) = 2
    /\ Len(all_swaps) = 2
    /\ all_swaps[1].tx_hash = "0x7b" /\ all_swaps[1].hour_index = 1
    /\ all_swaps[2].tx_hash = "0x7a" /\ all_swaps[2].hour_index = 2

\* C15: the windows main asks for start at the latest block, each starts
\* BLOCKS_PER_HOUR below its end or at block 0, each next one ends one block
\* below the start of the one before, no bound is negative, there are at most
\* NUM_HOURS of them, and none follows a window that starts at block 0.
C15_WindowsDescend ==
    LET n == Len(windows)
    IN  /\ n <= NUM_HOURS
        /\ n > 0 => windows[1][2] = latest_block
        /\ \A k \in 1..n :
              LET s == windows[k][1]
                  e == windows[k][2]
              IN  /\ s >= 0 /\ e >= 0 /\ s <= e
                  /\ \/ s = e - BLOCKS_PER_HOUR
                     \/ s = 0 /\ e - BLOCKS_PER_HOUR <= 0
                  /\ k < n => (s > 0 /\ windows[k + 1][2] = s - 1)
        /\ (n > 0 /\ windows[n][1] = 0) => main_pc # "loop"

C15_Witness ==
    /\ main_pc = "returned"
    /\ Len(windows) = 3
    /\ windows[1][2] = latest_block
    /\ windows[3] = <<0, BLOCKS_PER_HOUR>>

\* C16: swap_data.csv exists only once main has returned with nothing raised,
\* every window fetched, every fetched log decoded and at least one record
\* collected, and then it holds the collected records; a run in which a fetch
\* or a decode raised has written no file, and neither has a run that
\* collected no record.
C16_FileOnlyAfterCleanRun ==
    /\ csv.written =>
          /\ main_pc = "returned"
          /\ main_raised = ""
          /\ all_swaps # <<>>
          /\ csv.rows = all_swaps
          /\ decoded_logs = fetched
          /\ windows # <<>>
          /\ Len(windows) = NUM_HOURS \/ windows[Len(windows)][1] = 0
    /\ main_raised # "" => (~csv.written /\ main_pc = "aborted")
    /\ (main_pc = "returned" /\ all_swaps = <<>>) => ~csv.written

C16_Witness ==
    /\ csv.written
    /\ Len(csv.rows) = 2
    /\ Len(windows) = NUM_HOURS
    /\ Len(fetched) = 2

\* two outcomes of decoding one log agree: both a record or neither, both
\* "absent" or neither, and two records carry the same hash, amounts and
\* direction, and the same price when the prices are compared
Agree(a, b, with_price) ==
    /\ (a.kind = "record") = (b.kind = "record")
    /\ (a.kind = "absent") = (b.kind = "absent")
    /\ (a.kind = "record" /\ b.kind = "record") =>
          /\ a.tx_hash = b.tx_hash
          /\ a.amount0 = b.amount0
          /\ a.amount1 = b.amount1
          /\ a.trade_type = b.trade_type
          /\ with_price => a.price = b.price

\* C17: for every log and flag, process_swap_log of utils.py and of the two
\* transaction_screener.py agree on absent or record, on tx_hash, amount0,
\* amount1 and trade_type, and on price when the flag is true.
C17_DecodersAgree ==
    Decoded =>
        /\ Agree(outcome, utils_process_swap_log(log, alt_token_is_token0),
                 alt_token_is_token0)
        /\ Agree(outcome, dc_screener_process_swap_log(log, alt_token_is_token0),
                 alt_token_is_token0)
        /\ Agree(outcome, screener_process_swap_log(log, alt_token_is_token0),
                 alt_token_is_token0)

====
